---- MODULE Spec2Model ----
(***************************************************************************)
(* Model of src/cli.py: the reasoning loop generate_response, its helper   *)
(* process_step, and the gateway make_api_call with its retry policy.      *)
(*                                                                         *)
(* Python values.  A str that is built by concatenation (an f-string) is   *)
(* a sequence of text pieces, concatenation being \o.  A dict is a record  *)
(* [keys, at]: keys is the sequence of its keys in insertion order, at the *)
(* mapping from key to value; a missing key (KeyError) is a key outside    *)
(* Keys(d).  The value of a key is a tagged Python value: PyStr(s),        *)
(* PyInt(n) or None.                                                       *)
(***************************************************************************)
EXTENDS Integers, Sequences, FiniteSets, TLC

\* ----- bounds of the model (not program constants)
\* how many calls of one query may succeed after one or two failed attempts
MaxRecovered == 1
\* the gateway returns a next_action outside {continue, final_answer} only
\* in the first MaxOddCall calls of a query
MaxOddCall == 1
\* a loose gateway returns a body whose keys are laid out otherwise than the
\* system message shows only in the first MaxLooseCall calls of a query
MaxLooseCall == 1
\* in a run of a loose gateway at most MaxLooseFail attempts fail
MaxLooseFail == 1

\* ----- program constants
\* src/cli.py:55
MAX_STEPS == 25
\* src/cli.py:56
VERIFICATION_PROMPT == "Before giving the final answer, please verify your result using a different method and explain any discrepancies."
\* src/cli.py:57
FINAL_ANSWER_PROMPT == "Please provide the final answer based on your reasoning above."
\* a TLA+ string cannot hold the grave accent (U+0060): the code fence of
\* lines 74 and 80, three grave accents, is the piece Fence, given by its
\* code points
Fence == <<96, 96, 96>>
\* src/cli.py:59-81, the text in three pieces around its two code fences
SYSTEM_MESSAGE ==
    <<"You are an expert AI assistant that explains your reasoning step by step. \n    For each step, provide a title that describes what you're doing in that step, along with the content. \n    Decide if you need another step or if you're ready to give the final answer. \n    Respond in JSON format with 'title', 'content', and 'next_action' (either 'continue' or 'final_answer') keys. \n    USE AS MANY REASONING STEPS AS NECESSARY TO ENSURE ACCURACY. \n    ALWAYS DOUBLE-CHECK YOUR RESULTS AND CONSIDER EDGE CASES. \n    IF YOU FIND A DISCREPANCY IN YOUR REASONING, EXPLAIN IT AND CORRECT IT. \n    BE AWARE OF YOUR LIMITATIONS AS AN LLM AND WHAT YOU CAN AND CANNOT DO. \n    IN YOUR REASONING, INCLUDE EXPLORATION OF ALTERNATIVE ANSWERS. \n    CONSIDER YOU MAY BE WRONG, AND IF YOU ARE WRONG IN YOUR REASONING, WHERE IT WOULD BE. \n    FULLY TEST ALL OTHER POSSIBILITIES. YOU CAN BE WRONG. \n    WHEN YOU SAY YOU ARE RE-EXAMINING, ACTUALLY RE-EXAMINE, AND USE ANOTHER APPROACH TO DO SO. \n    DO NOT JUST SAY YOU ARE RE-EXAMINING. USE AT LEAST 3 METHODS TO DERIVE THE ANSWER. USE BEST PRACTICES.\n    IF YOU ARE UNSURE OF SOMETHING, SAY SO. DO NOT MAKE UP FACTS.\n    Example of a valid JSON response:\n    ",
      Fence,
      "json\n    {\n        \"title\": \"Identifying Key Information\",\n        \"content\": \"To begin solving this problem, we need to carefully examine the given information and identify the crucial elements that will guide our solution process. This involves...\",\n        \"next_action\": \"continue\"\n    }\n    ",
      Fence,
      "\n">>
\* src/cli.py:150
ACK_MESSAGE == "Thank you! I will now think step by step following my instructions, starting at the beginning after decomposing the problem."

\* ----- Python values
PyInt(n) == [int |-> n]
PyStr(s) == [str |-> s]
None == [none |-> TRUE]

\* ----- inputs
\* the queries a run is started with; the program never reads the text
Prompts == {"What is 2+2?"}
\* str(e) of the exception of a failed attempt: a network fault, or a body
\* that json.loads rejects
ErrMsgs == {"Connection error.", "Expecting value: line 1 column 1 (char 0)"}
\* next_action values a parsed body may carry
Actions == {"continue", "final_answer", "retry"}
\* a dict: keys in insertion order, and the value of each key
Dict(ks, f) == [keys |-> ks, at |-> f]
\* the keys present in a dict
Keys(d) == {d.keys[i] : i \in 1..Len(d.keys)}

\* the order in which the system message lists the keys of a reply
ProtocolOrder == <<"title", "content", "next_action">>
\* the keys of a parsed body, in the order of the reply's text
KeyOrders == {ProtocolOrder, <<"title", "content">>,
              <<"content", "next_action">>, <<"title", "next_action">>,
              <<"next_action", "content", "title">>,
              <<"title", "content", "next_action", "confidence">>}

\* a parsed response body: what json.loads returns on a successful attempt
Body(ks, na) ==
    Dict(ks, [k \in {ks[i] : i \in 1..Len(ks)} |->
                 IF k = "title" THEN PyStr("Compute")
                 ELSE IF k = "content" THEN PyStr(<<"2+2=4">>)
                 ELSE IF k = "next_action" THEN PyStr(na)
                 ELSE PyInt(1)])

Bodies == {Body(ks, na) : ks \in KeyOrders, na \in Actions}

\* a body is outside the protocol when its next_action is neither value
IsOdd(body) ==
    "next_action" \in Keys(body) /\ body.at["next_action"] \notin {PyStr("continue"), PyStr("final_answer")}

\* a body is loose when it has the protocol's three keys, but in another
\* order or with a further key
IsLoose(body) == Len(body.keys) >= 3 /\ body.keys # ProtocolOrder

\* ----- formatting
Digit == <<"0", "1", "2", "3", "4", "5", "6", "7", "8", "9">>

RECURSIVE Dec(_)
\* the decimal digits of a natural number, most significant first
Dec(n) == IF n < 10 THEN <<Digit[n + 1]>> ELSE Dec(n \div 10) \o <<Digit[(n % 10) + 1]>>

\* format(v, "") inside an f-string: decimal digits for an int, the text of
\* a str, the word None for None
Format(v) ==
    IF "int" \in DOMAIN v THEN Dec(v.int)
    ELSE IF "str" \in DOMAIN v THEN <<v.str>>
    ELSE <<"None">>

\* json.dumps of one value: null for None, the digits of an int, a quoted str
DumpValue(v) ==
    IF "int" \in DOMAIN v THEN <<"int", Dec(v.int)>>
    ELSE IF "str" \in DOMAIN v THEN <<"str", v.str>>
    ELSE <<"null">>

\* json.dumps of a dict: one key-value pair per key, in insertion order
dumps(rec) == [i \in 1..Len(rec.keys) |-> <<rec.keys[i], DumpValue(rec.at[rec.keys[i]])>>]

\* ----- helpers of the program
\* mutant: the message is built but never stored in the list
append_message_lost(msgs, role, content) == msgs

\* mutant: the message is put in front of the list
append_message_front(msgs, role, content) == <<[role |-> role, content |-> content]>> \o msgs

\* mutant: every message is stored under the user role
append_message_asuser(msgs, role, content) == Append(msgs, [role |-> "user", content |-> content])

\* append_message, lines 83-99
append_message(msgs, role, content) == Append(msgs, [role |-> role, content |-> content])

\* create_initial_messages, lines 134-152
create_initial_messages(p) ==
    << [role |-> "system", content |-> SYSTEM_MESSAGE],
       [role |-> "user", content |-> p],
       [role |-> "assistant", content |-> ACK_MESSAGE] >>

\* mutant: the last attempt is recognised one turn late
IsLastAttempt_late(a) == a = 3

\* line 129: the attempt after which no retry follows
IsLastAttempt(a) == a = 2

\* line 130: the text of the synthesized failure
error_message(is_final, e) ==
    <<"Failed to generate ", IF is_final THEN "final answer" ELSE "step",
      " after 3 attempts. Error: ", e>>

\* mutant: the condition on is_final_answer is inverted
ErrorRecord_inverted(is_final, e) ==
    Dict(<<"title", "content", "next_action">>,
         [title |-> PyStr("Error"),
          content |-> PyStr(error_message(is_final, e)),
          next_action |-> IF is_final THEN PyStr("final_answer") ELSE None])

\* mutant: the Error record asks the loop to go on
ErrorRecord_continue(is_final, e) ==
    Dict(<<"title", "content", "next_action">>,
         [title |-> PyStr("Error"),
          content |-> PyStr(error_message(is_final, e)),
          next_action |-> PyStr("continue")])

\* mutant: the Error record is built without its title
ErrorRecord_notitle(is_final, e) ==
    Dict(<<"content", "next_action">>,
         [content |-> PyStr(error_message(is_final, e)),
          next_action |-> IF ~is_final THEN PyStr("final_answer") ELSE None])

\* line 131: the record returned after the last failed attempt
ErrorRecord(is_final, e) ==
    Dict(<<"title", "content", "next_action">>,
         [title |-> PyStr("Error"),
          content |-> PyStr(error_message(is_final, e)),
          next_action |-> IF ~is_final THEN PyStr("final_answer") ELSE None])

\* line 169: the arguments process_step passes to make_api_call
\* (is_final_answer is left at its default, line 101)
CallMaxTokens == 300
CallIsFinal == FALSE

\* line 172: the title of the emitted step
StepTitle(arg, rec) == <<"Step ">> \o Format(arg) \o <<": ">> \o Format(rec.at["title"])

\* mutant: the cap is compared with > instead of >=
ShouldVerify_gt(rec, sc) == rec.at["next_action"] = PyStr("final_answer") \/ sc > MAX_STEPS

\* mutant: the cap is applied one step early
ShouldVerify_early(rec, sc) == rec.at["next_action"] = PyStr("final_answer") \/ sc + 1 >= MAX_STEPS

\* line 197: the termination check of STEPPING
ShouldVerify(rec, sc) == rec.at["next_action"] = PyStr("final_answer") \/ sc >= MAX_STEPS

\* mutant: leaving STEPPING goes straight to the final turn
PhaseAfterStep_skipverify(rec, sc) == IF ShouldVerify(rec, sc) THEN "finalizing" ELSE "stepping"

\* lines 197-203: where the loop goes after a STEPPING step
PhaseAfterStep(rec, sc) == IF ShouldVerify(rec, sc) THEN "verifying" ELSE "stepping"

\* lines 201, 205: the break after the verification turn leads to the final turn
PhaseAfterVerification == "finalizing"

\* mutant: the verification turn reuses the number of the last STEPPING step
VerificationArg_same(sc) == PyInt(sc)

\* line 199: the step number passed to process_step for the verification turn
VerificationArg(sc) == PyInt(sc + 1)

\* mutant: the KeyError is swallowed and the loop goes on as after a yield
KeyErrorOutcome_swallowed == "yielded"

\* lines 172, 195-207: nothing catches the KeyError of a missing key, it
\* leaves process_step and generate_response and ends the generator
KeyErrorOutcome == "fault"

\* lines 116-122: the request every attempt of a call sends (common_params)
Request(msgs, budget) ==
    [messages |-> msgs, max_tokens |-> budget, temperature |-> <<0, 2>>,
     response_format |-> "json_object"]

VARIABLES
    prompt,         \* the query of this run
    pc,             \* where the run stands: created, call, sleep, returned,
                    \*   yielded, done, fault
    phase,          \* init, stepping, verifying, finalizing, done
    messages,       \* the conversation
    step_count,     \* generate_response's step_count
    arg,            \* process_step's step_count argument
    max_tokens,     \* make_api_call's max_tokens
    is_final_answer,\* make_api_call's is_final_answer
    attempt,        \* make_api_call's loop variable
    ret,            \* the value make_api_call returned (step_data)
    emitted,        \* the (title, content) pairs yielded so far
    \* history variables
    trace,          \* the phase that yielded each emitted element
    tries,          \* attempts made by the current call
    failed,         \* failed attempts of the current call
    sleeps,         \* completed time.sleep(1) of the current call
    attempts_total, \* attempts made by all calls of the run
    failures_total, \* failed attempts of all calls of the run
    calls,          \* gateway calls begun so far
    recovered,      \* calls that succeeded after a failed attempt
    first_final,    \* index of the first STEPPING record asking for final_answer, 0 if none
    request,        \* the request sent by the latest attempt of the current call
    returns,        \* gateway calls that have returned
    pulls,          \* next() calls the consumer has made
    gateway         \* how the gateway of this run behaves:
                    \*   flaky: any attempt may fail, MaxRecovered calls recover,
                    \*          bodies in the protocol's layout
                    \*   slow:  every call answers at its third attempt, bodies
                    \*          in the protocol's layout
                    \*   loose: MaxLooseFail attempts fail, bodies in any layout
                    \*          in the first MaxLooseCall calls

vars == <<prompt, pc, phase, messages, step_count, arg, max_tokens, is_final_answer,
          attempt, ret, emitted, trace, tries, failed, sleeps, attempts_total,
          failures_total, calls, recovered, first_final, request, returns, pulls,
          gateway>>

loopVars == <<prompt, phase, messages, step_count, emitted, trace, first_final, gateway>>
callArgs == <<arg, max_tokens, is_final_answer>>

NoRet == [keys |-> <<>>, at |-> <<>>, unset |-> TRUE]

Init ==
    /\ prompt \in Prompts
    /\ pc = "created"
    /\ phase = "init"
    /\ messages = <<>>
    /\ step_count = 0
    /\ arg = PyInt(0)
    /\ max_tokens = 0
    /\ is_final_answer = FALSE
    /\ attempt = 0
    /\ ret = NoRet
    /\ emitted = <<>>
    /\ trace = <<>>
    /\ tries = 0
    /\ failed = 0
    /\ sleeps = 0
    /\ attempts_total = 0
    /\ failures_total = 0
    /\ calls = 0
    /\ recovered = 0
    /\ first_final = 0
    /\ request = NoRet
    /\ returns = 0
    /\ pulls = 0
    /\ gateway \in {"flaky", "slow", "loose"}

\* mutant: the attempt counter outlives the call (it is not reset on entry)
EnterCall_keep(a) ==
    /\ arg' = a
    /\ max_tokens' = CallMaxTokens
    /\ is_final_answer' = CallIsFinal
    /\ attempt' = attempt
    /\ ret' = NoRet
    /\ tries' = 0
    /\ failed' = 0
    /\ sleeps' = 0
    /\ calls' = calls + 1
    /\ request' = NoRet
    /\ pc' = "call"

\* process_step up to the entry of make_api_call's loop (lines 168-169, 116-124)
EnterCall(a) ==
    /\ arg' = a
    /\ max_tokens' = CallMaxTokens
    /\ is_final_answer' = CallIsFinal
    /\ attempt' = 0
    /\ ret' = NoRet
    /\ tries' = 0
    /\ failed' = 0
    /\ sleeps' = 0
    /\ calls' = calls + 1
    /\ request' = NoRet
    /\ pc' = "call"

\* the consumer's first next(): lines 190-194
Start ==
    /\ pc = "created"
    /\ messages' = create_initial_messages(prompt)
    /\ step_count' = 1
    /\ phase' = "stepping"
    /\ EnterCall(PyInt(1))
    /\ pulls' = pulls + 1
    /\ UNCHANGED <<prompt, gateway, emitted, trace, first_final, attempts_total, failures_total,
                   recovered, returns>>

\* which attempts the gateway lets succeed
\*   flaky: any, but at most MaxRecovered calls succeed after a failure
\*   slow:  none before the third attempt of a call
\*   loose: any
MaySucceed ==
    IF gateway = "slow" THEN failed = 2
    ELSE IF gateway = "loose" THEN TRUE
    ELSE (failed > 0 => recovered < MaxRecovered)

\* lines 126-127: the request succeeds and its body parses
AttemptSucceed ==
    /\ pc = "call"
    /\ \E body \in Bodies :
        /\ IsOdd(body) => calls <= MaxOddCall
        /\ IsLoose(body) => gateway = "loose" /\ calls <= MaxLooseCall
        /\ ret' = body
    /\ MaySucceed
    /\ recovered' = IF failed > 0 THEN recovered + 1 ELSE recovered
    /\ request' = Request(messages, max_tokens)
    /\ tries' = tries + 1
    /\ attempts_total' = attempts_total + 1
    /\ returns' = returns + 1
    /\ pc' = "returned"
    /\ UNCHANGED <<loopVars, callArgs, attempt, failed, sleeps, failures_total, calls, pulls>>

\* which attempts the gateway lets fail
\*   flaky, slow: any
\*   loose: any, but at most MaxLooseFail of a run
MayFail == gateway = "loose" => failures_total < MaxLooseFail

\* mutant: a failed attempt leaves a note of the failure in the conversation
AttemptFail_appends ==
    /\ pc = "call"
    /\ MayFail
    /\ \E e \in ErrMsgs :
        /\ messages' = append_message(messages, "assistant", <<"Error: ", e>>)
        /\ IF IsLastAttempt(attempt)
           THEN /\ ret' = ErrorRecord(is_final_answer, e)
                /\ returns' = returns + 1
                /\ pc' = "returned"
           ELSE /\ ret' = ret
                /\ returns' = returns
                /\ pc' = "sleep"
    /\ request' = Request(messages, max_tokens)
    /\ tries' = tries + 1
    /\ failed' = failed + 1
    /\ attempts_total' = attempts_total + 1
    /\ failures_total' = failures_total + 1
    /\ UNCHANGED <<prompt, phase, step_count, emitted, trace, first_final, gateway,
                   callArgs, attempt, sleeps, calls, recovered, pulls>>

\* lines 126-131: the request or the parse raises; after the last attempt the
\* Error record is returned, otherwise the call goes on to sleep
AttemptFail ==
    /\ pc = "call"
    /\ MayFail
    /\ \E e \in ErrMsgs :
        IF IsLastAttempt(attempt)
        THEN /\ ret' = ErrorRecord(is_final_answer, e)
             /\ returns' = returns + 1
             /\ pc' = "returned"
        ELSE /\ ret' = ret
             /\ returns' = returns
             /\ pc' = "sleep"
    /\ request' = Request(messages, max_tokens)
    /\ tries' = tries + 1
    /\ failed' = failed + 1
    /\ attempts_total' = attempts_total + 1
    /\ failures_total' = failures_total + 1
    /\ UNCHANGED <<loopVars, callArgs, attempt, sleeps, calls, recovered, pulls>>

\* line 132 and the next turn of the for loop, line 124
Sleep ==
    /\ pc = "sleep"
    /\ sleeps' = sleeps + 1
    /\ attempt' = attempt + 1
    /\ pc' = "call"
    /\ UNCHANGED <<loopVars, callArgs, ret, tries, failed, attempts_total, failures_total,
                   calls, recovered, request, returns, pulls>>

\* mutant: the producer is eager, it goes on to the next STEPPING call
\* without waiting for the consumer to ask for the next element
ProcessStep_prefetch ==
    /\ pc = "returned"
    /\ {"title", "content"} \subseteq Keys(ret)
    /\ messages' = append_message(messages, "assistant", dumps(ret))
    /\ emitted' = Append(emitted, <<StepTitle(arg, ret), ret.at["content"]>>)
    /\ trace' = Append(trace, phase)
    /\ step_count' = step_count + 1
    /\ EnterCall(PyInt(step_count + 1))
    /\ UNCHANGED <<prompt, gateway, phase, first_final, attempts_total, failures_total,
                   recovered, returns, pulls>>

\* lines 170-175 and the yield that follows (195, 200, 207)
ProcessStep ==
    /\ pc = "returned"
    /\ IF "title" \notin Keys(ret)
       THEN \* KeyError at line 172
            /\ pc' = KeyErrorOutcome
            /\ UNCHANGED <<messages, emitted, trace, first_final>>
       ELSE /\ messages' = append_message(messages, "assistant", dumps(ret))
            /\ IF "content" \notin Keys(ret)
               THEN \* KeyError in the yield expression
                    /\ pc' = KeyErrorOutcome
                    /\ UNCHANGED <<emitted, trace, first_final>>
               ELSE /\ emitted' = Append(emitted, <<StepTitle(arg, ret), ret.at["content"]>>)
                    /\ trace' = Append(trace, phase)
                    /\ first_final' =
                         IF /\ phase = "stepping"
                            /\ first_final = 0
                            /\ "next_action" \in Keys(ret)
                            /\ ret.at["next_action"] = PyStr("final_answer")
                         THEN step_count ELSE first_final
                    /\ pc' = "yielded"
    /\ UNCHANGED <<prompt, gateway, phase, step_count, callArgs, attempt, ret, tries, failed,
                   sleeps, attempts_total, failures_total, calls, recovered, request,
                   returns, pulls>>

\* the turn the loop opens next: the prompt it appends, the step number it
\* passes to process_step, and the call it enters
\*   stepping:   lines 203, 194
\*   verifying:  lines 198-199
\*   finalizing: lines 205-206
BeginTurn(target) ==
    /\ phase' = target
    /\ CASE target = "stepping" ->
              /\ step_count' = step_count + 1
              /\ UNCHANGED messages
              /\ EnterCall(PyInt(step_count + 1))
         [] target = "verifying" ->
              /\ messages' = append_message(messages, "user", VERIFICATION_PROMPT)
              /\ UNCHANGED step_count
              /\ EnterCall(VerificationArg(step_count))
         [] target = "finalizing" ->
              /\ messages' = append_message(messages, "user", FINAL_ANSWER_PROMPT)
              /\ UNCHANGED step_count
              /\ EnterCall(PyStr("Final Answer"))

\* the consumer's next() after a STEPPING yield: lines 197-203 and 194
ResumeStepping ==
    /\ pc = "yielded"
    /\ phase = "stepping"
    /\ IF "next_action" \notin Keys(ret)
       THEN \* KeyError at line 197
            /\ pc' = KeyErrorOutcome
            /\ UNCHANGED <<phase, messages, step_count, callArgs, attempt, ret,
                           tries, failed, sleeps, calls, request>>
       ELSE BeginTurn(PhaseAfterStep(ret, step_count))
    /\ pulls' = pulls + 1
    /\ UNCHANGED <<prompt, gateway, emitted, trace, first_final, attempts_total, failures_total,
                   recovered, returns>>

\* the consumer's next() after the verification yield: lines 201, 205-206
ResumeVerifying ==
    /\ pc = "yielded"
    /\ phase = "verifying"
    /\ BeginTurn(PhaseAfterVerification)
    /\ pulls' = pulls + 1
    /\ UNCHANGED <<prompt, gateway, emitted, trace, first_final, attempts_total, failures_total,
                   recovered, returns>>

\* the consumer's next() after the last yield: the generator is exhausted
ResumeFinal ==
    /\ pc = "yielded"
    /\ phase = "finalizing"
    /\ phase' = "done"
    /\ pc' = "done"
    /\ pulls' = pulls + 1
    /\ UNCHANGED <<prompt, gateway, messages, step_count, callArgs, attempt, ret, emitted, trace,
                   tries, failed, sleeps, attempts_total, failures_total, calls, recovered,
                   first_final, request, returns>>

Next ==
    \/ Start
    \/ AttemptSucceed
    \/ AttemptFail
    \/ Sleep
    \/ ProcessStep
    \/ ResumeStepping
    \/ ResumeVerifying
    \/ ResumeFinal

Spec == Init /\ [][Next]_vars

\* every attempt eventually completes and the consumer keeps pulling
FairSpec == Spec /\ WF_vars(Next)

\* ======================================================================
\* Properties
\* ======================================================================

Min(a, b) == IF a < b THEN a ELSE b

\* the emitted elements produced by a given phase
EmittedBy(ph) == {i \in 1..Len(trace) : trace[i] = ph}

\* the user messages whose content is a given prompt
Holding(text) ==
    {i \in 1..Len(messages) : messages[i].role = "user" /\ messages[i].content = text}

\* make_api_call has returned and has not been entered again
CallOver == pc \in {"returned", "yielded", "done", "fault"}

\* all three attempts of the current call failed
Exhausted == failed = 3

\* the keys a record must have to be StepRecord-shaped
WellFormed(rec, is_final) ==
    /\ {"title", "content"} \subseteq Keys(rec)
    /\ ~is_final => "next_action" \in Keys(rec)

\* ---------------------------------------------------------------- C1
\* C1 (as stated): when the generator is exhausted, the last emitted step is
\* titled exactly "Final Answer" and no other emitted step carries that title.
C1_EndsWithFinalAnswer ==
    pc = "done" =>
        /\ Len(emitted) > 0
        /\ emitted[Len(emitted)][1] = <<"Final Answer">>
        /\ Cardinality({i \in 1..Len(emitted) : emitted[i][1] = <<"Final Answer">>}) = 1

\* ---------------------------------------------------------------- C2
\* C2 (as stated): every run that has ended, by exhaustion or by a raised
\* fault, has executed the verification turn exactly once.
C2_VerifiedInEveryRun ==
    pc \in {"done", "fault"} =>
        /\ Cardinality(EmittedBy("verifying")) = 1
        /\ Cardinality(Holding(VERIFICATION_PROMPT)) = 1

\* C2 (amended): the verification turn is never executed more than once, its
\* step comes after every STEPPING step and before the final-answer step, and
\* every run that reaches FINALIZING, whether STEPPING ended on final_answer
\* or on the cap, has executed it exactly once.
C2_VerificationOnce ==
    /\ Cardinality(EmittedBy("verifying")) <= 1
    /\ Cardinality(Holding(VERIFICATION_PROMPT)) =
           (IF phase \in {"verifying", "finalizing", "done"} THEN 1 ELSE 0)
    /\ \A i \in 1..(Len(trace) - 1) :
           \/ trace[i] = "stepping" /\ trace[i + 1] \in {"stepping", "verifying"}
           \/ trace[i] = "verifying" /\ trace[i + 1] = "finalizing"
    /\ phase \in {"finalizing", "done"} => Cardinality(EmittedBy("verifying")) = 1
    /\ EmittedBy("finalizing") # {} => Cardinality(EmittedBy("verifying")) = 1

C2_Witness ==
    /\ pc = "done"
    /\ first_final = 0
    /\ Len(trace) = MAX_STEPS + 2
    /\ trace[MAX_STEPS + 1] = "verifying"

\* ---------------------------------------------------------------- C3
\* C3: while STEPPING step_count lies in 1..25 and equals the number of
\* STEPPING iterations begun, so there is no 26th; VERIFYING begins with
\* step_count <= 25.
C3_StepCap ==
    /\ phase = "stepping" => /\ step_count \in 1..25
                             /\ calls = step_count
    /\ Cardinality(EmittedBy("stepping")) <= 25
    /\ phase = "verifying" => /\ step_count <= 25
                              /\ calls = step_count + 1

C3_Witness ==
    /\ phase = "verifying"
    /\ pc = "call"
    /\ step_count = 25
    /\ first_final = 0

\* ---------------------------------------------------------------- C4
\* C4: never more than 27 steps are emitted, and a run that ends normally has
\* emitted min(k, 25) + 2 steps, k the index of the first STEPPING record
\* whose next_action is final_answer (no such record: 25 + 2).
C4_EmittedCount ==
    /\ Len(emitted) <= 27
    /\ pc = "done" =>
           Len(emitted) = (IF first_final = 0 THEN 25 ELSE Min(first_final, 25)) + 2

C4_Witness ==
    /\ pc = "done"
    /\ first_final = 0
    /\ Len(emitted) = 27

\* ---------------------------------------------------------------- C5
\* C5: a call whose three attempts all failed returns a record titled
\* "Error" whose content names the failure after 3 attempts and, the call
\* not being a final-answer call, whose next_action is "final_answer".
C5_ErrorRecord ==
    (pc = "returned" /\ Exhausted) =>
        /\ ret.at["title"] = PyStr("Error")
        /\ Len(ret.at["content"].str) = 4
        /\ ret.at["content"].str[1] = "Failed to generate "
        /\ ret.at["content"].str[2] = (IF is_final_answer THEN "final answer" ELSE "step")
        /\ ret.at["content"].str[3] = " after 3 attempts. Error: "
        /\ ret.at["content"].str[4] \in ErrMsgs
        /\ ~is_final_answer => ret.at["next_action"] = PyStr("final_answer")

C5_Witness ==
    /\ pc = "returned"
    /\ Exhausted
    /\ phase = "stepping"
    /\ ret.at["title"] = PyStr("Error")

\* ---------------------------------------------------------------- C6
\* C6: a call makes at most 3 attempts; each failed attempt but the third is
\* followed by exactly one wait and then the next attempt; the third failure
\* and the first success return at once.  A call that fails throughout has
\* made 3 attempts and 2 waits.
C6_RetryPolicy ==
    /\ tries <= 3
    /\ pc = "call" => /\ tries = attempt
                      /\ failed = attempt
                      /\ sleeps = attempt
    /\ pc = "sleep" => /\ failed = tries
                       /\ failed \in {1, 2}
                       /\ sleeps = failed - 1
    /\ CallOver => IF failed = tries
                   THEN tries = 3 /\ sleeps = 2
                   ELSE tries = failed + 1 /\ sleeps = failed

C6_Witness ==
    /\ pc = "returned"
    /\ tries = 3
    /\ failed = 3
    /\ sleeps = 2

\* ---------------------------------------------------------------- C7
\* C7 (as stated): whatever the attempts did, the returned value has title
\* and content, and next_action on a non-final call, and no fault is raised
\* in the loop.
C7_AlwaysWellFormed ==
    /\ pc = "returned" => WellFormed(ret, is_final_answer)
    /\ pc # "fault"

\* C7 (amended): make_api_call never raises; it returns the Error record,
\* which is well-formed, after three failures and otherwise the parsed body
\* of its first successful attempt as it is.  A fault is raised only in the
\* loop, after the call returned a body that lacks a key.
C7_ReturnsBodyOrError ==
    /\ pc \in {"call", "sleep"} => ret = NoRet
    /\ pc = "returned" =>
           IF Exhausted
           THEN WellFormed(ret, is_final_answer) /\ ret.at["title"] = PyStr("Error")
           ELSE ret \in Bodies
    /\ pc = "fault" => /\ ~Exhausted
                       /\ ret \in Bodies
                       /\ ~WellFormed(ret, phase = "finalizing")

C7_Witness ==
    /\ pc = "returned"
    /\ ~Exhausted
    /\ "title" \notin Keys(ret)

\* ---------------------------------------------------------------- C8
\* C8: an Error step emitted in STEPPING is followed at once by the
\* verification call; a run in which every attempt failed raises no fault,
\* can always go on until it is exhausted, and is exhausted with exactly 3
\* steps emitted after 9 attempts.
C8_ErrorLeavesStepping ==
    /\ [][(pc = "yielded" /\ phase = "stepping" /\ Exhausted)
            => (phase' = "verifying" /\ pc' = "call")]_vars
    /\ [](attempts_total = failures_total =>
            /\ pc # "fault"
            /\ attempts_total <= 9
            /\ Len(emitted) <= 3
            /\ pc # "done" => ENABLED Next
            /\ pc = "done" => Len(emitted) = 3 /\ attempts_total = 9)

C8_Witness ==
    /\ pc = "done"
    /\ attempts_total = 9
    /\ failures_total = 9
    /\ Len(emitted) = 3

\* ---------------------------------------------------------------- C9
\* C9 (as stated): the call of FINALIZING has budget 200 and is a
\* final-answer call, so its Error record says "final answer" and has no
\* "final_answer" next_action; the calls of STEPPING and VERIFYING have
\* budget 300 and are step calls.
C9_FinalCallArgs ==
    /\ (phase \in {"stepping", "verifying"} /\ pc \in {"call", "sleep", "returned"}) =>
           max_tokens = 300 /\ ~is_final_answer
    /\ (phase = "finalizing" /\ pc \in {"call", "sleep", "returned"}) =>
           /\ max_tokens = 200
           /\ is_final_answer
           /\ (pc = "returned" /\ Exhausted) =>
                  /\ ret.at["content"].str[2] = "final answer"
                  /\ ("next_action" \in Keys(ret) => ret.at["next_action"] = None)

\* --------------------------------------------------------------- C10
\* the number of STEPPING round trips completed (reply appended)
SteppingDone ==
    IF phase = "stepping"
    THEN (IF pc \in {"yielded", "fault"} /\ "title" \in Keys(ret)
          THEN step_count ELSE step_count - 1)
    ELSE step_count

\* C10 (as stated): after N completed STEPPING iterations the conversation
\* holds 3 + 2*N messages.
C10_LengthTwoPerStep ==
    phase = "stepping" => Len(messages) = 3 + 2 * SteppingDone

\* C10 (amended): after N completed STEPPING iterations the conversation
\* holds 3 + N messages; the verification turn adds its user prompt and its
\* assistant reply (3 + N + 2), and so does the final turn (3 + N + 4).
C10_LengthOnePerStep ==
    LET replied == pc \in {"yielded", "done"} \/ (pc = "fault" /\ "title" \in Keys(ret))
    IN  /\ phase = "stepping" => Len(messages) = 3 + SteppingDone
        /\ phase = "verifying" =>
               Len(messages) = 3 + SteppingDone + (IF replied THEN 2 ELSE 1)
        /\ phase = "finalizing" =>
               Len(messages) = 3 + SteppingDone + 2 + (IF replied THEN 2 ELSE 1)
        /\ phase = "done" => Len(messages) = 3 + SteppingDone + 4

C10_Witness ==
    /\ phase = "done"
    /\ SteppingDone = 2
    /\ Len(messages) = 9

\* --------------------------------------------------------------- C11
\* C11 (as stated): a STEPPING record whose next_action is absent or is
\* neither "continue" nor "final_answer" is never followed by another
\* STEPPING iteration: whenever a further STEPPING call is entered, the reply
\* appended last asked for "continue".
C11_OddIsFault ==
    (phase = "stepping" /\ pc = "call" /\ step_count > 1) =>
        LET reply == messages[Len(messages)].content
        IN  \E i \in 1..Len(reply) :
                /\ reply[i][1] = "next_action"
                /\ reply[i][2] = <<"str", "continue">>

\* --------------------------------------------------------------- C12
\* a body that lacks a key the loop reads in the current turn
MissingKey ==
    \/ "title" \notin Keys(ret)
    \/ "content" \notin Keys(ret)
    \/ phase = "stepping" /\ "next_action" \notin Keys(ret)

\* C12: when every attempt completes and the consumer keeps pulling, the run
\* is eventually exhausted unless a body lacking a key ended it with a fault
\* (no sequence of continue / final_answer records does); no run makes more
\* than 27 gateway calls or more than 81 attempts.
C12_Terminates ==
    /\ [](calls <= 27 /\ attempts_total <= 81)
    /\ [](pc = "fault" => MissingKey)
    /\ <>(pc = "done" \/ pc = "fault")

C12_Witness ==
    /\ pc = "done"
    /\ calls = 27
    /\ attempts_total = 81

\* --------------------------------------------------------------- C13
\* C13: a body that lacks title or content was returned by the attempt that
\* received it (no retry, no Error record); the loop raises on it, at once,
\* nothing is emitted for that round trip and nothing happens afterwards, so
\* no verification or final-answer step follows.
C13_MalformedFaults ==
    (CallOver /\ ret # NoRet /\ ~({"title", "content"} \subseteq Keys(ret))) =>
        /\ pc \in {"returned", "fault"}
        /\ tries = failed + 1
        /\ failed < 3
        /\ "title" \in Keys(ret) => ret.at["title"] # PyStr("Error")
        /\ Len(emitted) = returns - 1
        /\ EmittedBy("finalizing") = {}
        /\ phase = "stepping" => EmittedBy("verifying") = {}
        /\ phase = "verifying" => Cardinality(EmittedBy("verifying")) = 0
        /\ pc = "fault" => ~ENABLED Next

C13_Witness ==
    /\ pc = "fault"
    /\ phase = "stepping"
    /\ step_count = 2
    /\ "content" \notin Keys(ret)
    /\ Len(emitted) = 1

\* --------------------------------------------------------------- C14
\* a step that keeps every message present, in place
KeepsMessages ==
    /\ Len(messages') >= Len(messages)
    /\ SubSeq(messages', 1, Len(messages)) = messages

\* C14: every step keeps the messages already present, in place, and never
\* shortens the conversation; once built, the conversation starts with the
\* system directive, the query and the acknowledgement.
C14_AppendOnly ==
    /\ [][KeepsMessages]_vars
    /\ [](phase # "init" =>
            /\ Len(messages) >= 3
            /\ messages[1] = [role |-> "system", content |-> SYSTEM_MESSAGE]
            /\ messages[2] = [role |-> "user", content |-> prompt]
            /\ messages[3] = [role |-> "assistant", content |-> ACK_MESSAGE])

C14_Witness ==
    /\ phase = "done"
    /\ Len(messages) = 3 + 25 + 4
    /\ messages[2].content = prompt

\* --------------------------------------------------------------- C15
AssistantCount == Cardinality({i \in 1..Len(messages) : messages[i].role = "assistant"})

\* the contents of the user messages appended after the initial three
UserAfterInit ==
    LET IsUser(m) == m.role = "user"
        us == SelectSeq(SubSeq(messages, 4, Len(messages)), IsUser)
    IN  [i \in 1..Len(us) |-> us[i].content]

\* a message content that lists each key of rec once, in rec's order, with
\* the JSON text of rec's value
Serialized(content, rec) ==
    /\ Len(content) = Cardinality(Keys(rec))
    /\ \A i \in 1..Len(content) :
           /\ content[i][1] = rec.keys[i]
           /\ content[i][2] = DumpValue(rec.at[content[i][1]])
    /\ \A i, j \in 1..Len(content) : content[i][1] = content[j][1] => i = j

\* process_step has returned or raised for the current round trip
RoundTripOver == pc \in {"yielded", "done", "fault"}

\* C15 (as stated): every round trip has appended exactly one assistant
\* message, so after k round trips there are k of them besides the
\* acknowledgement.
C15_OneReplyPerRoundTrip ==
    RoundTripOver => AssistantCount = 1 + calls

\* C15 (amended): every round trip whose returned record has a title, normal
\* or Error, appends exactly one assistant message holding the serialized
\* record, and one whose body lacks title appends nothing; the only user
\* messages appended after INIT are the verification prompt and then the
\* final-answer prompt, each once, each the last message when its call is
\* made.
C15_RepliesAndPrompts ==
    phase # "init" =>
        /\ pc \in {"call", "sleep", "returned"} => AssistantCount = calls
        /\ RoundTripOver =>
               IF "title" \in Keys(ret)
               THEN /\ AssistantCount = 1 + calls
                    /\ messages[Len(messages)].role = "assistant"
                    /\ Serialized(messages[Len(messages)].content, ret)
               ELSE AssistantCount = calls
        /\ UserAfterInit =
               (CASE phase = "stepping" -> <<>>
                  [] phase = "verifying" -> <<VERIFICATION_PROMPT>>
                  [] OTHER -> <<VERIFICATION_PROMPT, FINAL_ANSWER_PROMPT>>)
        /\ pc \in {"call", "sleep", "returned"} =>
               CASE phase = "stepping" -> messages[Len(messages)].role = "assistant"
                 [] phase = "verifying" ->
                       messages[Len(messages)] =
                           [role |-> "user", content |-> VERIFICATION_PROMPT]
                 [] OTHER ->
                       messages[Len(messages)] =
                           [role |-> "user", content |-> FINAL_ANSWER_PROMPT]

C15_Witness ==
    /\ pc = "yielded"
    /\ phase = "stepping"
    /\ calls = 1
    /\ ret.keys = <<"next_action", "content", "title">>
    /\ AssistantCount = 1 + calls
    /\ messages[4].content[1] = <<"next_action", <<"str", "final_answer">>>>

\* --------------------------------------------------------------- C16
\* C16: at most one gateway call is in progress; the call for element N+1 is
\* entered only after N elements were handed over and the consumer asked
\* for the next one, and it returns before anything else is produced.
C16_PullDriven ==
    /\ calls - returns \in {0, 1}
    /\ (pc \in {"call", "sleep"}) <=> (calls - returns = 1)
    /\ calls <= pulls
    /\ Len(emitted) >= calls - 1
    /\ pc \in {"call", "sleep", "returned"} =>
           /\ Len(emitted) = calls - 1
           /\ pulls = calls
    /\ pc = "yielded" => Len(emitted) = calls /\ pulls = calls

C16_Witness ==
    /\ pc = "sleep"
    /\ calls = 3
    /\ returns = 2
    /\ pulls = 3
    /\ Len(emitted) = 2

\* --------------------------------------------------------------- C17
\* C17: a call starts at its first attempt whatever earlier calls went
\* through, and an Error record is returned only after three attempts of
\* the call that returns it.
C17_FreshRetryState ==
    /\ (pc = "call" /\ tries = 0) => attempt = 0
    /\ pc = "call" => attempt = tries /\ attempt < 3
    /\ pc = "sleep" => attempt = tries - 1
    /\ (pc = "returned" /\ "title" \in Keys(ret) /\ ret.at["title"] = PyStr("Error")) =>
           tries = 3 /\ failed = 3

C17_Witness ==
    /\ pc = "call"
    /\ tries = 0
    /\ attempt = 0
    /\ calls = 2
    /\ failures_total = 3

\* --------------------------------------------------------------- C18
\* a step taken inside make_api_call leaves the conversation and the budget
\* alone and, after the first attempt, sends what was sent before
CallFrame ==
    pc \in {"call", "sleep"} =>
        /\ messages' = messages
        /\ max_tokens' = max_tokens
        /\ (request # NoRet /\ request' # NoRet) => request' = request

\* C18: no step of a call changes the conversation or the budget, and every
\* attempt of a call sends the conversation and the budget the call was
\* entered with.
C18_CallLeavesConversation ==
    /\ [][CallFrame]_vars
    /\ [](pc \in {"sleep", "returned"} =>
            /\ request.messages = messages
            /\ request.max_tokens = max_tokens)

C18_Witness ==
    /\ pc = "returned"
    /\ Exhausted
    /\ phase = "verifying"
    /\ request.messages = messages
    /\ Len(messages) = 5

\* --------------------------------------------------------------- C19
\* the digits of a number below 100
Numeral(i) ==
    IF i < 10 THEN <<Digit[i + 1]>>
    ELSE <<Digit[(i \div 10) + 1], Digit[(i % 10) + 1]>>

\* C19: the i-th emitted step of STEPPING and VERIFYING is titled
\* "Step i: <title>", the verification step being the one after the last
\* STEPPING step; no number above 26 appears.
C19_ConsecutiveNumbers ==
    \A i \in 1..Len(emitted) :
        trace[i] \in {"stepping", "verifying"} =>
            LET title == emitted[i][1]
            IN  /\ i <= 26
                /\ SubSeq(title, 1, Len(title) - 1) = <<"Step ">> \o Numeral(i) \o <<": ">>
                /\ title[Len(title)] \in {"Compute", "Error"}
                /\ trace[i] = "verifying" => i = Cardinality(EmittedBy("stepping")) + 1

C19_Witness ==
    /\ pc = "done"
    /\ Len(emitted) = 27
    /\ emitted[25][1] = <<"Step ", "2", "5", ": ", "Compute">>
    /\ emitted[26][1] = <<"Step ", "2", "6", ": ", "Compute">>

====
